---- MODULE Spec2Model ----
(***************************************************************************)
(* Model of TelegramBot.py: the JSON store (load_data / save_data), the    *)
(* ledger handlers (add category, add rental, undo rental, delete          *)
(* category), the per-chat notification job (start / stop_notifications /  *)
(* check_rental_end_times) and the clock the job runs against.             *)
(*                                                                         *)
(* Handlers are asyncio coroutines: a handler runs without interruption    *)
(* up to its next await.  Every ledger handler does load -> mutate -> save *)
(* before its first network await, so it is one step.  The job             *)
(* check_rental_end_times awaits send_message between its load and its     *)
(* save, so it is split at that await.                                     *)
(*                                                                         *)
(* Time is counted in units of 30 seconds.  Amounts are integer-valued      *)
(* floats: sums and differences are rounded to MantissaBits significant     *)
(* bits, to nearest, ties to even, as Python's float arithmetic does with   *)
(* 53 bits.  A time text 'HH:MM-DD.MM.YY' is abstracted to the number of    *)
(* its minute, and BadTime stands for a text datetime() rejects.            *)
(***************************************************************************)
EXTENDS Integers, Sequences, FiniteSets, TLC

\* ------------------------------------------------------------- bounds
Chats == {1, 2}              \* chat ids (one user per private chat)
Names == {"a", "b"}          \* category names a user may type
TickNames == {"a"}           \* those typed in the specification that also runs the job
MaxRentals == 2              \* longest rental list explored
MaxId == 3                   \* rental identities tracked when history is kept
MaxClock == 5                \* last instant explored (30 s units)
LedgerClock == 3             \* last instant explored by the ledger specification
SubClock == 4                \* last instant explored by the subscription specification
MantissaBits == 6            \* significand width of the floats explored (Python: 53)

\* ---------------------------------------------------------- constants
Minute == 2                  \* one minute, in 30 s units
Window == 1 * Minute         \* timedelta(minutes=1)
Interval == 2                \* run_repeating(interval=60.0), in 30 s units
MaxDelay == Interval - 1     \* the job queue fires a tick late by less than one period
BadTime == -1                \* a time text that datetime() / split() rejects
NoSel == "-"                 \* 'selected_category' not in user_data
MenuSize == 5                \* the slice [-5:] of show_rentals_to_undo

VARIABLES
    file,       \* content of financial_data.json
    action,     \* user_data['action'] per chat ("none" when absent)
    selected,   \* user_data['selected_category'] per chat (NoSel when absent)
    chat_job,   \* 'job' in chat_data, per chat
    jobs,       \* number of repeating jobs registered under the chat's name
    next_run,   \* nominal time of the chat's next tick
    clock,      \* datetime.now()
    pc,         \* per chat: "idle", or "sending" (tick suspended in send_message)
    tdata,      \* the tick's local `data`
    tidx,       \* the tick's position in data['rentals'] (1-based)
    tnow,       \* the tick's local `now`
    hist,       \* whether this behaviour keeps the history variables below (fixed
                \*          by the initial state; rentals get rid 0 when it does not)
    last,       \* history: now / loaded un-notified ids / tried ids / raised ids of
                \*          the running or latest tick of the chat's job
    prevfail,   \* history: now and raised ids of the tick before `last`, if any raised
    nextId,     \* history: identity given to the next appended rental
    emitted,    \* history: notifications sent, per rental identity
    flagged,    \* history: identities ever persisted with notified = TRUE
    tflagged,   \* history: `flagged` when the running tick started
    req         \* history: the request handled by the latest step, with the file
                \*          and the job registrations it found (ReqOff: not kept)

vars == <<file, action, selected, chat_job, jobs, next_run, clock, pc, tdata,
          tidx, tnow, hist, last, prevfail, nextId, emitted, flagged, tflagged, req>>

Ids == 1..MaxId

\* ------------------------------------------------------------ the store
ZeroTotals == [profit |-> 0, expense |-> 0, income |-> 0]

EmptyCats == [n \in {} |-> ZeroTotals]

default_data == [categories |-> EmptyCats, rentals |-> <<>>]

\* A file holding json.dump(data).
Json(data) == [kind |-> "json", data |-> data]

AbsentFile == [kind |-> "absent", data |-> default_data]

\* Other contents the file may have: no bytes; bytes json.load rejects; a JSON
\* value that is not an object; an object without 'categories' / 'rentals';
\* an object whose 'categories' is a list of names (the older layout).
EmptyFile == [kind |-> "empty", data |-> default_data]

CorruptFile == [kind |-> "corrupt", data |-> default_data]

NonObjectFile == [kind |-> "nonobject", data |-> default_data]

NoKeysFile == [kind |-> "nokeys", data |-> default_data]

LegacyFile(names, rentals) ==
    [kind |-> "legacy", data |-> [categories |-> EmptyCats, rentals |-> rentals],
     names |-> names]

\* save_data: overwrite the file with the whole of `data`.
save_data(data) == Json(data)

\* save_data when open(..., 'w') or json.dump raises IOError (caught and
\* logged, lines 58-59): open truncates the file before anything is written,
\* so what is left is the old file (open itself failed), no bytes, or a
\* prefix of the new text, which json.load rejects.
save_data_ioerror(f) == {f, EmptyFile, CorruptFile}

SeqRange(s) == {s[k] : k \in 1..Len(s)}

\* load_data migrating the list layout without writing it back.
LoadNoMigrationSave(f) ==
    IF f.kind = "json"
    THEN [data |-> f.data, file |-> f, ok |-> TRUE, raised |-> FALSE]
    ELSE IF f.kind = "legacy"
    THEN [data |-> [categories |-> [n \in SeqRange(f.names) |-> ZeroTotals],
                    rentals |-> f.data.rentals],
          file |-> f, ok |-> TRUE, raised |-> FALSE]
    ELSE [data |-> default_data, file |-> save_data(default_data),
          ok |-> TRUE, raised |-> FALSE]

\* load_data: the data returned and the file left behind.  A missing, empty
\* or undecodable file is replaced by the default data; a list of category
\* names is turned into a dict and written back.  json.load of a value that
\* is not an object makes data.get raise AttributeError, which the except
\* clause (JSONDecodeError, IOError) does not catch: `raised`.  An object
\* without the keys is returned as it is: `ok` tells whether the value
\* returned has 'categories' and 'rentals'.
load_data(f) ==
    IF f.kind = "json"
    THEN [data |-> f.data, file |-> f, ok |-> TRUE, raised |-> FALSE]
    ELSE IF f.kind = "legacy"
    THEN LET d == [categories |-> [n \in SeqRange(f.names) |-> ZeroTotals],
                   rentals |-> f.data.rentals]
         IN  [data |-> d, file |-> save_data(d), ok |-> TRUE, raised |-> FALSE]
    ELSE IF f.kind = "nonobject"
    THEN [data |-> default_data, file |-> f, ok |-> FALSE, raised |-> TRUE]
    ELSE IF f.kind = "nokeys"
    THEN [data |-> default_data, file |-> f, ok |-> FALSE, raised |-> FALSE]
    ELSE [data |-> default_data, file |-> save_data(default_data),
          ok |-> TRUE, raised |-> FALSE]

\* ------------------------------------------------------------ time codec
\* In the ledger and job specifications: the minute number a text stands for.
validate_datetime_format(t) == t # BadTime

parse_dt(t) == t * Minute

\* validate_datetime_format on the characters of the text, lines 61-75 (the
\* pattern is at line 63).  A text is a sequence of one-character strings.
DigitChars == <<"0", "1", "2", "3", "4", "5", "6", "7", "8", "9">>

NL == "\n"

IsDigit(ch) == \E k \in 1..Len(DigitChars) : DigitChars[k] = ch

DigitVal(ch) == (CHOOSE k \in 1..Len(DigitChars) : DigitChars[k] = ch) - 1

\* re.match(r'^\d{2}:\d{2}-\d{2}\.\d{2}\.\d{2}$', s): without re.MULTILINE
\* '$' matches at the end of the text and also just before a newline that
\* ends the text.
RegexMatch(s) ==
    /\ \/ Len(s) = 14
       \/ Len(s) = 15 /\ s[15] = NL
    /\ \A k \in {1, 2, 4, 5, 7, 8, 10, 11, 13, 14} : IsDigit(s[k])
    /\ s[3] = ":"
    /\ s[6] = "-"
    /\ s[9] = "."
    /\ s[12] = "."

\* int() of the two characters at i, i + 1 (int() strips a trailing newline)
FieldAt(s, i) == 10 * DigitVal(s[i]) + DigitVal(s[i + 1])

IsLeap(y) == (y % 4 = 0 /\ y % 100 # 0) \/ y % 400 = 0

DaysInMonth(y, m) ==
    IF m = 2 THEN (IF IsLeap(y) THEN 29 ELSE 28)
    ELSE IF m \in {4, 6, 9, 11} THEN 30 ELSE 31

\* datetime(year, month, day, hour, minute) does not raise ValueError
DateTimeOK(y, mo, d, h, mi) ==
    /\ mo \in 1..12
    /\ d \in 1..DaysInMonth(y, mo)
    /\ h \in 0..23
    /\ mi \in 0..59

validate_datetime_text(s) ==
    /\ RegexMatch(s)
    /\ DateTimeOK(2000 + FieldAt(s, 13), FieldAt(s, 10), FieldAt(s, 7),
                  FieldAt(s, 1), FieldAt(s, 4))

\* ------------------------------------------------------------ amounts
\* float(parts[0]), float(parts[1]) and the +=, -=, - of lines 446-463 and
\* 314-316: the result of an operation on floats is the exact result rounded
\* to the nearest float, ties to the even significand.
RECURSIVE FloatStep(_, _)
\* The spacing of the floats around magnitude m: the least power of two
\* `step` (from step on) with m < 2^MantissaBits * step.
FloatStep(m, step) ==
    IF m < (2 ^ MantissaBits) * step THEN step ELSE FloatStep(m, 2 * step)

FRound(x) ==
    LET m == IF x < 0 THEN 0 - x ELSE x
        step == FloatStep(m, 1)
        q == m \div step
        rem == m % step
        up == 2 * rem > step \/ (2 * rem = step /\ q % 2 = 1)
        v == (IF up THEN q + 1 ELSE q) * step
    IN  IF x < 0 THEN 0 - v ELSE v

\* ------------------------------------------------------------ ledger ops
CatAdd(cats, n, tot) ==
    [k \in (DOMAIN cats) \cup {n} |-> IF k = n THEN tot ELSE cats[k]]

CatDel(cats, n) == [k \in (DOMAIN cats) \ {n} |-> cats[k]]

\* RemoveAt dropping the last element whatever the position asked for.
RemoveLast(s, i) == [k \in 1..(Len(s) - 1) |-> s[k]]

RemoveAt(s, i) == [k \in 1..(Len(s) - 1) |-> IF k < i THEN s[k] ELSE s[k + 1]]

\* handle_text, action 'add_category', lines 393-396
AddCategoryData(data, n) == [data EXCEPT !.categories = CatAdd(@, n, ZeroTotals)]

NewRental(cat, t, id) ==
    [category |-> cat, profit |-> t.profit, expense |-> t.expense,
     start_time |-> t.start_time, end_time |-> t.end_time,
     income |-> FRound(t.profit - t.expense), notified |-> FALSE, rid |-> id]

AddTotals(tot, r, sign) ==
    [profit |-> FRound(tot.profit + sign * r.profit),
     expense |-> FRound(tot.expense + sign * r.expense),
     income |-> FRound(tot.income + sign * r.income)]

\* handle_text, action 'add_rental', lines 446-463: the append is unconditional,
\* the totals are updated only if the category is (still) a key.
AddRentalData(data, cat, t, id) ==
    LET r == NewRental(cat, t, id)
        d1 == [data EXCEPT !.rentals = Append(@, r)]
    IN  IF cat \in DOMAIN d1.categories
        THEN [d1 EXCEPT !.categories[cat] = AddTotals(@, r, 1)]
        ELSE d1

\* RentalTextOK with the order check end_dt < start_dt for end_dt <= start_dt.
RentalTextOKLoose(t) ==
    /\ t.nparts = 4
    /\ t.numeric
    /\ validate_datetime_format(t.start_time)
    /\ validate_datetime_format(t.end_time)
    /\ parse_dt(t.end_time) >= parse_dt(t.start_time)

\* What the text of an add_rental message is accepted as, lines 410-444.
RentalTextOK(t) ==
    /\ t.nparts = 4
    /\ t.numeric
    /\ validate_datetime_format(t.start_time)
    /\ validate_datetime_format(t.end_time)
    /\ parse_dt(t.end_time) > parse_dt(t.start_time)

\* Python list indexing: -len..-1 count from the end.
PyIndex(s, i) == IF i >= 0 THEN i + 1 ELSE Len(s) + i + 1

PyIndexOK(s, i) == PyIndex(s, i) \in 1..Len(s)

\* undo_rental, lines 310-318
UndoRentalData(data, i) ==
    LET k == PyIndex(data.rentals, i)
        r == data.rentals[k]
        d1 == IF r.category \in DOMAIN data.categories
              THEN [data EXCEPT !.categories[r.category] = AddTotals(@, r, -1)]
              ELSE data
    IN  [d1 EXCEPT !.rentals = RemoveAt(@, k)]

\* show_rentals_to_undo, lines 282-299.  `rentals` is the last MenuSize rentals
\* of the category; the text lists them newest first, item k being
\* reversed(rentals)[k - 1]; the button labelled k carries
\* len(data['rentals']) - len(rentals) + (k - 1).
CategoryPositions(rs, n) ==
    SelectSeq([k \in 1..Len(rs) |-> k], LAMBDA k : rs[k].category = n)

LastN(s, m) == SubSeq(s, IF Len(s) > m THEN Len(s) - m + 1 ELSE 1, Len(s))

UndoMenu(data, n) ==
    LET pos == LastN(CategoryPositions(data.rentals, n), MenuSize)
        rentals == [i \in 1..Len(pos) |-> data.rentals[pos[i]]]
    IN  [items |-> [k \in 1..Len(rentals) |-> rentals[Len(rentals) - k + 1]],
         buttons |-> [k \in 1..Len(rentals) |->
                         Len(data.rentals) - Len(rentals) + (k - 1)]]

\* delete_category without line 340: the category's rentals stay.
DeleteCategoryKeepRentals(data, n) ==
    [categories |-> CatDel(data.categories, n), rentals |-> data.rentals]

\* delete_category, lines 339-340
DeleteCategoryData(data, n) ==
    [categories |-> CatDel(data.categories, n),
     rentals |-> SelectSeq(data.rentals, LAMBDA r : r.category # n)]

\* ------------------------------------------------------------ the tick
\* InWindow with the window closed at its far end (<= for <).
InWindowClosed(r, now) ==
    /\ parse_dt(r.end_time) <= now
    /\ now <= parse_dt(r.end_time) + Window

\* lines 84-93: the rental is not yet notified, its end_time parses, and
\* end_dt <= now < end_dt + timedelta(minutes=1)
InWindow(r, now) ==
    /\ parse_dt(r.end_time) <= now
    /\ now < parse_dt(r.end_time) + Window

Sendable(r, now) ==
    /\ ~r.notified
    /\ validate_datetime_format(r.end_time)
    /\ InWindow(r, now)

\* The position of the first rental from i on for which the loop reaches
\* send_message; 0 when the loop runs to its end.
RECURSIVE Scan(_, _, _)
Scan(rs, i, now) ==
    IF i > Len(rs) THEN 0
    ELSE IF Sendable(rs[i], now) THEN i
    ELSE Scan(rs, i + 1, now)

NotifiedIds(f) ==
    {f.data.rentals[k].rid : k \in {k \in 1..Len(f.data.rentals) : f.data.rentals[k].notified}}


UnnotifiedIds(data) ==
    {data.rentals[k].rid : k \in {k \in 1..Len(data.rentals) : ~data.rentals[k].notified}}

NoLast == [now |-> -1, pending |-> {}, tried |-> {}, raised |-> {}]

NoFail == [now |-> -1, raised |-> {}]

\* ------------------------------------------------------------ inputs
Txt(n, num, p, e, s, en) ==
    [nparts |-> n, numeric |-> num, profit |-> p, expense |-> e,
     start_time |-> s, end_time |-> en]

\* Texts a user sends while action = 'add_rental': two that are accepted and
\* one for each way of being rejected.
RentalTexts ==
    {Txt(4, TRUE, 3, 1, 0, 1), Txt(4, TRUE, 2, 2, 1, 2),
     Txt(4, TRUE, 3, 1, 1, 1), Txt(4, TRUE, 3, 1, 2, 1),
     Txt(4, TRUE, 3, 1, BadTime, 1), Txt(4, TRUE, 3, 1, 0, BadTime),
     Txt(4, FALSE, 0, 0, 0, 1), Txt(3, TRUE, 3, 1, 0, 1)}

\* callback_data 'undo_<n>' a button may carry
UndoIds == 0..MaxRentals

\* callback_data 'undo_<n>' a client may send: int() at line 211 takes any
\* decimal integer, signed or not.
UndoIdsAny == (0 - MaxRentals - 1)..MaxRentals

\* Time texts: every combination of the field values below in the shape
\* HH:MM-DD.MM.YY, and texts off that shape made from two of them.
TwoDigits(n) == <<DigitChars[(n \div 10) + 1], DigitChars[(n % 10) + 1]>>

TimeText(h, mi, d, mo, y) ==
    TwoDigits(h) \o <<":">> \o TwoDigits(mi) \o <<"-">> \o TwoDigits(d)
        \o <<".">> \o TwoDigits(mo) \o <<".">> \o TwoDigits(y)

Hours == {0, 14, 23, 24, 25}

Minutes == {0, 6, 59, 60}

Days == {0, 1, 11, 28, 29, 30, 31, 32}

Months == {0, 1, 2, 4, 7, 12, 13}

Years == {0, 24, 25, 99}

ShapedTexts ==
    {TimeText(h, mi, d, mo, y) :
        h \in Hours, mi \in Minutes, d \in Days, mo \in Months, y \in Years}

\* s without its k-th character
DropAt(s, k) == SubSeq(s, 1, k - 1) \o SubSeq(s, k + 1, Len(s))

Misshapen(s) ==
    {DropAt(s, k) : k \in 1..Len(s)}
    \cup {[s EXCEPT ![k] = ch] : k \in 1..Len(s), ch \in {"x", ":", "-", ".", "7"}}
    \cup {s \o <<NL>>, s \o <<" ">>, <<" ">> \o s, s \o <<"0">>, s \o <<NL, NL>>,
          <<NL>> \o s, <<>>}

TimeTexts ==
    ShapedTexts \cup Misshapen(TimeText(14, 6, 11, 7, 25))
                \cup Misshapen(TimeText(25, 0, 1, 1, 25))

\* ------------------------------------------------------------ handlers
tickVars == <<pc, tdata, tidx, tnow, last, prevfail, tflagged>>
userVars == <<action, selected>>
jobVars == <<chat_job, jobs, next_run>>
histVars == <<hist, emitted, flagged>>

\* The request history: a request with the file, the 'job' flags and the job
\* registrations it found; NoReq after a step that is not a request.
ReqOff == [op |-> "off"]

NoReq == [op |-> "none"]

Req(op, c, arg) ==
    [op |-> op, chat |-> c, arg |-> arg, before |-> file, sub |-> chat_job,
     jobs |-> jobs]

Rec(r) == req' = IF req = ReqOff THEN ReqOff ELSE r

\* start without the test of line 113: the job is registered on every call.
StartEffectAlways(c) ==
    /\ jobs' = [jobs EXCEPT ![c] = @ + 1]
    /\ next_run' = [next_run EXCEPT ![c] = clock]
    /\ chat_job' = [chat_job EXCEPT ![c] = TRUE]
    /\ action' = [action EXCEPT ![c] = "none"]
    /\ selected' = [selected EXCEPT ![c] = NoSel]

\* start, lines 112-133: register the repeating job unless chat_data has 'job',
\* then drop 'action' and 'selected_category' from user_data.
StartEffect(c) ==
    /\ IF ~chat_job[c]
       THEN /\ jobs' = [jobs EXCEPT ![c] = @ + 1]
            /\ next_run' = [next_run EXCEPT ![c] = clock]
            /\ chat_job' = [chat_job EXCEPT ![c] = TRUE]
       ELSE UNCHANGED jobVars
    /\ action' = [action EXCEPT ![c] = "none"]
    /\ selected' = [selected EXCEPT ![c] = NoSel]

\* /start, or the 'back_to_main' button
Start(c) ==
    /\ StartEffect(c)
    /\ Rec(Req("start", c, 0))
    /\ UNCHANGED <<file, clock, tickVars, nextId, histVars>>

\* stop_notifications without the loop of lines 373-374: 'job' is dropped from
\* chat_data but the registered jobs stay in the queue.
StopKeepsJob(c) ==
    /\ Rec(Req("stop", c, 0))
    /\ chat_job' = [chat_job EXCEPT ![c] = FALSE]
    /\ UNCHANGED <<file, clock, userVars, jobs, next_run, tickVars, nextId, histVars>>

\* stop_notifications, lines 371-377.  A run of the job that is suspended in
\* send_message is not cancelled.
Stop(c) ==
    /\ Rec(Req("stop", c, 0))
    /\ jobs' = [jobs EXCEPT ![c] = 0]
    /\ chat_job' = [chat_job EXCEPT ![c] = FALSE]
    /\ next_run' = [next_run EXCEPT ![c] = 0]
    /\ IF pc[c] = "idle"
       THEN /\ last' = [last EXCEPT ![c] = NoLast]
            /\ prevfail' = [prevfail EXCEPT ![c] = NoFail]
       ELSE UNCHANGED <<last, prevfail>>
    /\ UNCHANGED <<file, clock, userVars, pc, tdata, tidx, tnow, tflagged, nextId, histVars>>

\* button 'add_category', line 176
PressAddCategory(c) ==
    /\ action' = [action EXCEPT ![c] = "add_category"]
    /\ Rec(NoReq)
    /\ UNCHANGED <<file, selected, jobVars, clock, tickVars, nextId, histVars>>

\* button 'category_<n>_rental' of the menu select_category_menu built from
\* the stored categories, lines 193-195
PressCategoryRental(c, n) ==
    /\ file.kind = "json"
    /\ n \in DOMAIN file.data.categories
    /\ selected' = [selected EXCEPT ![c] = n]
    /\ action' = [action EXCEPT ![c] = "add_rental"]
    /\ Rec(NoReq)
    /\ UNCHANGED <<file, jobVars, clock, tickVars, nextId, histVars>>

\* handle_text with no 'action' in user_data, line 494
TextNoAction(c) ==
    /\ action[c] = "none"
    /\ StartEffect(c)
    /\ Rec(Req("text", c, 0))
    /\ UNCHANGED <<file, clock, tickVars, nextId, histVars>>

\* handle_text, action 'add_category', lines 392-401.  When the loaded value
\* is unusable the exception is answered at lines 490-492 and start() follows
\* at line 494.
TextAddCategory(c, n) ==
    /\ action[c] = "add_category"
    /\ Rec(Req("add_category", c, n))
    /\ LET ld == load_data(file)
       IN  IF ~ld.ok
           THEN /\ file' = ld.file
                /\ StartEffect(c)
           ELSE IF n \notin DOMAIN ld.data.categories
           THEN /\ file' = save_data(AddCategoryData(ld.data, n))
                /\ StartEffect(c)
           ELSE /\ file' = ld.file
                /\ UNCHANGED <<userVars, jobVars>>
    /\ UNCHANGED <<clock, tickVars, nextId, histVars>>

\* handle_text, action 'add_category', when save_data at line 396 hits an
\* IOError: save_data logs it and returns, the handler goes on as if saved.
TextAddCategoryIOError(c, n) ==
    /\ action[c] = "add_category"
    /\ Rec(Req("add_category_ioerror", c, n))
    /\ LET ld == load_data(file)
       IN  /\ ld.ok
           /\ n \notin DOMAIN ld.data.categories
           /\ file' \in save_data_ioerror(ld.file)
    /\ StartEffect(c)
    /\ UNCHANGED <<clock, tickVars, nextId, histVars>>

\* button 'select_category': select_category_menu, lines 219-224, which only
\* loads.  The request history keeps what load_data returned.
SelectCategoryMenu(c) ==
    /\ LET ld == load_data(file)
       IN  /\ file' = ld.file
           /\ Rec(Req("menu", c, [ok |-> ld.ok, raised |-> ld.raised, data |-> ld.data]))
    /\ UNCHANGED <<userVars, jobVars, clock, tickVars, nextId, histVars>>

\* validate_datetime_format(text) is called (lines 417, 425) and returns.
Validate ==
    /\ req.op = "input"
    /\ req' = [op |-> "validate", arg |-> req.arg,
               reply |-> validate_datetime_text(req.arg)]
    /\ UNCHANGED <<file, userVars, jobVars, clock, tickVars, nextId, histVars>>

\* handle_text, action 'add_rental', lines 403-489
TextAddRental(c, t) ==
    /\ action[c] = "add_rental"
    /\ Rec(Req("add_rental", c, t))
    /\ IF selected[c] = NoSel
       THEN /\ StartEffect(c)
            /\ UNCHANGED <<file, nextId>>
       ELSE IF ~RentalTextOK(t)
       THEN UNCHANGED <<file, nextId, userVars, jobVars>>
       ELSE IF ~load_data(file).ok
       THEN /\ StartEffect(c)
            /\ UNCHANGED <<file, nextId>>
       ELSE LET ld == load_data(file)
            IN  /\ Len(ld.data.rentals) < MaxRentals
                /\ hist => nextId <= MaxId
                /\ file' = save_data(AddRentalData(ld.data, selected[c], t,
                                                   IF hist THEN nextId ELSE 0))
                /\ nextId' = IF hist THEN nextId + 1 ELSE nextId
                /\ StartEffect(c)
    /\ UNCHANGED <<clock, tickVars, histVars>>

\* button 'undo_<i>': undo_rental, lines 305-332.  The request history also
\* keeps the file found by the request before, if that was an add_rental.
UndoRental(c, i) ==
    /\ Rec([op |-> "undo", chat |-> c, arg |-> i, before |-> file,
            sub |-> chat_job, jobs |-> jobs,
            was |-> IF req.op = "add_rental"
                    THEN [add |-> TRUE, file |-> req.before]
                    ELSE [add |-> FALSE, file |-> file]])
    /\ LET ld == load_data(file)
       IN  IF ld.ok /\ PyIndexOK(ld.data.rentals, i)
           THEN file' = save_data(UndoRentalData(ld.data, i))
           ELSE file' = ld.file
    /\ UNCHANGED <<userVars, jobVars, clock, tickVars, nextId, histVars>>

\* button 'category_<n>_undo' of the menu built from the stored categories:
\* show_rentals_to_undo, lines 279-303.  The request history keeps the menu.
ShowRentalsToUndo(c, n) ==
    /\ file.kind = "json"
    /\ n \in DOMAIN file.data.categories
    /\ LET ld == load_data(file)
       IN  /\ file' = ld.file
           /\ Rec(Req("undo_menu", c, [category |-> n, menu |-> UndoMenu(ld.data, n)]))
    /\ UNCHANGED <<userVars, jobVars, clock, tickVars, nextId, histVars>>

\* button 'category_<n>_delete': delete_category, lines 334-347
DeleteCategory(c, n) ==
    /\ Rec(Req("delete", c, n))
    /\ LET ld == load_data(file)
       IN  IF ld.ok /\ n \in DOMAIN ld.data.categories
           THEN file' = save_data(DeleteCategoryData(ld.data, n))
           ELSE file' = ld.file
    /\ UNCHANGED <<userVars, jobVars, clock, tickVars, nextId, histVars>>

\* ------------------------------------------------------------ the job
\* The loop of check_rental_end_times from position j on: suspended in
\* send_message for the rental at j, or (j = 0) run to its end.  `run` is the
\* history of the tick so far.
TickGo(c, data, j, now, run, tf) ==
    /\ IF j = 0
       THEN /\ pc' = [pc EXCEPT ![c] = "idle"]
            /\ tdata' = [tdata EXCEPT ![c] = default_data]
            /\ tidx' = [tidx EXCEPT ![c] = 0]
            /\ tnow' = [tnow EXCEPT ![c] = 0]
            /\ tflagged' = [tflagged EXCEPT ![c] = {}]
       ELSE /\ pc' = [pc EXCEPT ![c] = "sending"]
            /\ tdata' = [tdata EXCEPT ![c] = data]
            /\ tidx' = [tidx EXCEPT ![c] = j]
            /\ tnow' = [tnow EXCEPT ![c] = now]
            /\ tflagged' = [tflagged EXCEPT ![c] = IF hist THEN tf ELSE {}]
    /\ last' = [last EXCEPT ![c] =
            IF ~hist \/ (j = 0 /\ jobs[c] = 0) THEN NoLast
            ELSE IF j = 0 THEN run
            ELSE [run EXCEPT !.tried = @ \cup {data.rentals[j].rid}]]

\* The job queue runs the chat's job: lines 79-98 up to the first await.
TickStart(c) ==
    /\ jobs[c] > 0
    /\ pc[c] = "idle"
    /\ next_run[c] <= clock
    /\ Rec(Req("tick", c, 0))
    /\ LET ld == load_data(file)
       IN  /\ file' = ld.file
           /\ TickGo(c, ld.data, Scan(ld.data.rentals, 1, clock), clock,
                     [NoLast EXCEPT !.now = clock, !.pending = UnnotifiedIds(ld.data)],
                     flagged)
    /\ prevfail' = [prevfail EXCEPT ![c] =
            IF hist /\ last[c].raised # {}
            THEN [now |-> last[c].now, raised |-> last[c].raised] ELSE NoFail]
    /\ next_run' = [next_run EXCEPT ![c] = @ + Interval]
    /\ UNCHANGED <<userVars, chat_job, jobs, clock, nextId, histVars>>

\* send_message returns: lines 103-104, then the loop goes on.
SendOK(c) ==
    /\ pc[c] = "sending"
    /\ Rec(NoReq)
    /\ LET data == [tdata[c] EXCEPT !.rentals[tidx[c]].notified = TRUE]
           id == tdata[c].rentals[tidx[c]].rid
       IN  /\ file' = save_data(data)
           /\ emitted' = IF hist THEN [emitted EXCEPT ![id] = @ + 1] ELSE emitted
           /\ flagged' = IF hist THEN flagged \cup NotifiedIds(save_data(data)) ELSE flagged
           /\ TickGo(c, data, Scan(data.rentals, tidx[c] + 1, tnow[c]), tnow[c],
                     last[c], tflagged[c])
    /\ UNCHANGED <<userVars, jobVars, clock, nextId, hist, prevfail>>

\* SendFail with the exception handled outside the loop: the tick ends.
SendFailEndsTick(c) ==
    /\ pc[c] = "sending"
    /\ Rec(NoReq)
    /\ LET id == tdata[c].rentals[tidx[c]].rid
       IN  TickGo(c, tdata[c], 0, tnow[c],
                  [last[c] EXCEPT !.raised = @ \cup {id}], tflagged[c])
    /\ UNCHANGED <<file, userVars, jobVars, clock, nextId, histVars, prevfail>>

\* send_message raises: lines 106-107, then the loop goes on.
SendFail(c) ==
    /\ pc[c] = "sending"
    /\ Rec(NoReq)
    /\ LET id == tdata[c].rentals[tidx[c]].rid
       IN  TickGo(c, tdata[c], Scan(tdata[c].rentals, tidx[c] + 1, tnow[c]), tnow[c],
                  [last[c] EXCEPT !.raised = @ \cup {id}], tflagged[c])
    /\ UNCHANGED <<file, userVars, jobVars, clock, nextId, histVars, prevfail>>

\* Time passes.  An idle job is run at most MaxDelay late; a run that comes
\* due while the job's previous run is still suspended is dropped.
TimePasses(maxc) ==
    /\ clock < maxc
    /\ Rec(NoReq)
    /\ \A c \in Chats : (jobs[c] > 0 /\ pc[c] = "idle") => clock < next_run[c] + MaxDelay
    /\ clock' = clock + 1
    /\ next_run' = [c \in Chats |->
            IF jobs[c] > 0 /\ pc[c] # "idle" /\ clock + 1 > next_run[c] + MaxDelay
            THEN next_run[c] + Interval ELSE next_run[c]]
    /\ UNCHANGED <<file, userVars, chat_job, jobs, tickVars, nextId, histVars>>

Advance == TimePasses(MaxClock)

AdvanceLedger == TimePasses(LedgerClock)

AdvanceSub == TimePasses(SubClock)

\* ------------------------------------------------------------ specifications
InitRest ==
    /\ action = [c \in Chats |-> "none"]
    /\ selected = [c \in Chats |-> NoSel]
    /\ chat_job = [c \in Chats |-> FALSE]
    /\ jobs = [c \in Chats |-> 0]
    /\ next_run = [c \in Chats |-> 0]
    /\ clock = 0
    /\ pc = [c \in Chats |-> "idle"]
    /\ tdata = [c \in Chats |-> default_data]
    /\ tidx = [c \in Chats |-> 0]
    /\ tnow = [c \in Chats |-> 0]
    /\ last = [c \in Chats |-> NoLast]
    /\ prevfail = [c \in Chats |-> NoFail]
    /\ emitted = [i \in Ids |-> 0]
    /\ tflagged = [c \in Chats |-> {}]
    /\ nextId = 1

\* The bot is started with no data file; one chat drives the ledger and its
\* own notification job.
Init ==
    /\ file = AbsentFile
    /\ hist = FALSE
    /\ req = ReqOff
    /\ flagged = {}
    /\ InitRest

Next ==
    \/ \E c \in {1} :
        \/ Start(c)
        \/ Stop(c)
        \/ PressAddCategory(c)
        \/ \E n \in TickNames : PressCategoryRental(c, n)
        \/ TextNoAction(c)
        \/ \E n \in TickNames : TextAddCategory(c, n)
        \/ \E t \in RentalTexts : TextAddRental(c, t)
        \/ \E i \in UndoIds : UndoRental(c, i)
        \/ \E n \in TickNames : DeleteCategory(c, n)
        \/ TickStart(c)
        \/ SendOK(c)
        \/ SendFail(c)
    \/ AdvanceLedger

Spec == Init /\ [][Next]_vars

\* Stores the bot may find at start-up when it is restarted over data written
\* earlier: one category with two rentals ending a minute apart; one category
\* with a rental whose end_time does not parse followed by two rentals ending
\* in the same minute.
Stored(id, p, e, s, en) ==
    [category |-> "a", profit |-> p, expense |-> e, start_time |-> s,
     end_time |-> en, income |-> p - e, notified |-> FALSE, rid |-> id]

SchedFiles ==
    {Json([categories |-> CatAdd(EmptyCats, "a", [profit |-> 5, expense |-> 3, income |-> 2]),
           rentals |-> <<Stored(1, 3, 1, 0, 1), Stored(2, 2, 2, 1, 2)>>]),
     Json([categories |-> CatAdd(EmptyCats, "a", [profit |-> 8, expense |-> 4, income |-> 4]),
           rentals |-> <<Stored(1, 3, 1, 0, BadTime), Stored(2, 3, 1, 0, 1),
                         Stored(3, 2, 2, 0, 1)>>])}

\* The jobs of the chats that subscribe, against a store written earlier,
\* with a category being deleted meanwhile.
InitSched ==
    /\ file \in SchedFiles
    /\ hist = TRUE
    /\ req = ReqOff
    /\ flagged = NotifiedIds(file)
    /\ InitRest

NextSched ==
    \/ \E c \in Chats :
        \/ Start(c)
        \/ TickStart(c)
        \/ SendOK(c)
        \/ SendFail(c)
    \/ DeleteCategory(1, "a")
    \/ Advance

SpecSched == InitSched /\ [][NextSched]_vars

\* The ledger on its own, with two category names and the request history:
\* the bot is started with no data file, or over a store written earlier
\* (LedgerFile, BigFile).  The job is registered and removed but time does
\* not pass.
LedgerFile ==
    Json([categories |-> CatAdd(CatAdd(EmptyCats, "a", ZeroTotals), "b",
                                [profit |-> 3, expense |-> 1, income |-> 2]),
          rentals |-> <<[category |-> "b", profit |-> 3, expense |-> 1,
                         start_time |-> 0, end_time |-> 1, income |-> 2,
                         notified |-> TRUE, rid |-> 0]>>])

\* LedgerFile with its rental not yet notified.
LedgerFileDue == Json([LedgerFile.data EXCEPT !.rentals[1].notified = FALSE])

\* A store written earlier whose category 'a' holds one rental with the
\* largest odd amount that floats hold exactly.
BigAmount == (2 ^ MantissaBits) - 1

BigFile ==
    Json([categories |-> CatAdd(EmptyCats, "a",
                                [profit |-> BigAmount, expense |-> 0, income |-> BigAmount]),
          rentals |-> <<[category |-> "a", profit |-> BigAmount, expense |-> 0,
                         start_time |-> 0, end_time |-> 1, income |-> BigAmount,
                         notified |-> TRUE, rid |-> 0]>>])

InitLedger ==
    /\ file \in {AbsentFile, LedgerFile, BigFile}
    /\ hist = FALSE
    /\ req = NoReq
    /\ flagged = {}
    /\ InitRest

NextLedger ==
    \E c \in {1} :
        \/ Start(c)
        \/ Stop(c)
        \/ PressAddCategory(c)
        \/ \E n \in Names : PressCategoryRental(c, n)
        \/ TextNoAction(c)
        \/ \E n \in Names : TextAddCategory(c, n)
        \/ \E t \in RentalTexts : TextAddRental(c, t)
        \/ \E i \in UndoIdsAny : UndoRental(c, i)
        \/ \E n \in Names : DeleteCategory(c, n)
        \/ \E n \in Names : ShowRentalsToUndo(c, n)

SpecLedger == InitLedger /\ [][NextLedger]_vars

\* Subscriptions: two chats subscribe and unsubscribe while their jobs run over
\* a store written earlier, with the request history.
InitSub ==
    /\ file = LedgerFileDue
    /\ hist = FALSE
    /\ req = NoReq
    /\ flagged = {}
    /\ InitRest

NextSub ==
    \/ \E c \in Chats :
        \/ Start(c)
        \/ Stop(c)
        \/ TickStart(c)
        \/ SendOK(c)
        \/ SendFail(c)
    \/ AdvanceSub

SpecSub == InitSub /\ [][NextSub]_vars

\* The validator on its own: a text is given and validated.
InitCodec ==
    /\ file = AbsentFile
    /\ hist = FALSE
    /\ req \in {[op |-> "input", arg |-> s] : s \in TimeTexts}
    /\ flagged = {}
    /\ InitRest

NextCodec == Validate

SpecCodec == InitCodec /\ [][NextCodec]_vars

\* The store on its own: the bot is started over any kind of file content,
\* categories are added and deleted, a save may hit an IOError.
StoreFiles ==
    {AbsentFile, EmptyFile, CorruptFile, NonObjectFile, NoKeysFile,
     LegacyFile(<<"a", "b">>, LedgerFile.data.rentals), LegacyFile(<<"a", "a">>, <<>>),
     Json(default_data), LedgerFile}

InitStore ==
    /\ file \in StoreFiles
    /\ hist = FALSE
    /\ req = NoReq
    /\ flagged = {}
    /\ InitRest

NextStore ==
    \E c \in {1} :
        \/ SelectCategoryMenu(c)
        \/ PressAddCategory(c)
        \/ \E n \in Names : TextAddCategory(c, n)
        \/ \E n \in Names : TextAddCategoryIOError(c, n)
        \/ \E n \in Names : DeleteCategory(c, n)

SpecStore == InitStore /\ [][NextStore]_vars

\* ------------------------------------------------------------ claims
RECURSIVE SumOver(_, _, _)
\* Sum of field f (1 profit, 2 expense, 3 income) over the rentals of category n.
SumOver(rs, n, f) ==
    IF rs = <<>> THEN 0
    ELSE LET r == Head(rs)
             v == IF r.category # n THEN 0
                  ELSE IF f = 1 THEN r.profit
                  ELSE IF f = 2 THEN r.expense ELSE r.income
         IN  v + SumOver(Tail(rs), n, f)

\* C1: in every reachable state each stored category's profit, expense and
\* income equal the sums of those fields over the stored rentals of that
\* category.
C1_TotalsMatchRentals ==
    \A n \in DOMAIN file.data.categories :
        LET tot == file.data.categories[n]
        IN  /\ tot.profit = SumOver(file.data.rentals, n, 1)
            /\ tot.expense = SumOver(file.data.rentals, n, 2)
            /\ tot.income = SumOver(file.data.rentals, n, 3)

\* C2: in every reachable state every stored rental names a category that is
\* a key of the stored categories (add rental appends nothing when the
\* selected category is gone).
C2_RentalsNameStoredCategories ==
    \A k \in 1..Len(file.data.rentals) :
        file.data.rentals[k].category \in DOMAIN file.data.categories

\* ---- steps of the job, as seen from outside
\* send_message of chat c's suspended tick returns or raises
TickStep(c) == pc[c] = "sending" /\ <<pc[c], tidx[c]>>' # <<pc[c], tidx[c]>>

\* ... it returns: a notification is emitted and the tick saves
SentStep(c) == TickStep(c) /\ emitted' # emitted

\* the job queue starts a tick of chat c
StartStep(c) == pc[c] = "idle" /\ jobs[c] > 0 /\ next_run'[c] = next_run[c] + Interval

StoredIds(f) == {f.data.rentals[k].rid : k \in 1..Len(f.data.rentals)}

\* end_time <= now < end_time + one minute, spelled out
WithinMinute(r, now) ==
    /\ r.end_time # BadTime
    /\ r.end_time * Minute <= now
    /\ now < (r.end_time + 1) * Minute

\* C3: whatever the number of subscribed chats, at most one notification is
\* emitted for any rental over the whole execution.
C3_AtMostOneNotification == \A i \in Ids : emitted[i] <= 1

\* C4: when a tick saves, the persisted store keeps everything the ledger
\* operations committed since the tick loaded: the save changes nothing but
\* notified flags of the store as it is persisted at that moment.
C4_TickSaveKeepsCommits ==
    [][\A c \in Chats : SentStep(c) =>
          /\ file'.data.categories = file.data.categories
          /\ Len(file'.data.rentals) = Len(file.data.rentals)
          /\ \A k \in 1..Len(file.data.rentals) :
                [file'.data.rentals[k] EXCEPT !.notified = FALSE]
                    = [file.data.rentals[k] EXCEPT !.notified = FALSE]]_vars

\* C5: once a rental has been persisted with notified = TRUE, no tick that
\* starts afterwards emits a notification for it.
C5_NotifiedNeverRenotified ==
    [][\A c \in Chats : SentStep(c) =>
          tdata[c].rentals[tidx[c]].rid \notin tflagged[c]]_vars

\* C6: for a rental that stays in the store, the persisted notified flag
\* never goes from TRUE back to FALSE.
C6_NotifiedNeverReset ==
    [][\A i \in Ids : (i \in NotifiedIds(file) /\ i \in StoredIds(file'))
                        => i \in NotifiedIds(file')]_vars

\* The rentals a step of chat c's tick passes over without reaching
\* send_message: those after position `from` and before the position the
\* tick is suspended at next (all the rest when the tick ends).
PassedOver(c, rs, from) ==
    {k \in (from + 1)..Len(rs) : pc'[c] = "sending" => k < tidx'[c]}

\* C7: a tick at time now calls the notifier for an un-notified rental, and on
\* its return marks the rental and persists the mark, exactly when
\* end_time <= now < end_time + one minute; a rental outside that window is
\* passed over, never notified, and left as it was, so no stored rental is
\* marked before its end_time.
C7_NotifyExactlyInWindow ==
    [][\A c \in Chats :
        /\ StartStep(c) =>
              /\ \A k \in PassedOver(c, file'.data.rentals, 0) :
                    LET r == file'.data.rentals[k]
                    IN  r.notified \/ ~WithinMinute(r, clock)
              /\ pc'[c] = "sending" =>
                    LET r == tdata'[c].rentals[tidx'[c]]
                    IN  ~r.notified /\ WithinMinute(r, clock) /\ tnow'[c] = clock
        /\ TickStep(c) =>
              /\ \A k \in PassedOver(c, tdata[c].rentals, tidx[c]) :
                    LET r == tdata[c].rentals[k]
                    IN  r.notified \/ ~WithinMinute(r, tnow[c])
              /\ pc'[c] = "sending" =>
                    /\ tnow'[c] = tnow[c]
                    /\ ~tdata'[c].rentals[tidx'[c]].notified
                    /\ WithinMinute(tdata'[c].rentals[tidx'[c]], tnow[c])
                    /\ \A k \in 1..Len(tdata[c].rentals) : k # tidx[c] =>
                          tdata'[c].rentals[k] = tdata[c].rentals[k]
        /\ SentStep(c) =>
              LET r == tdata[c].rentals[tidx[c]]
              IN  /\ ~r.notified /\ WithinMinute(r, tnow[c])
                  /\ emitted' = [emitted EXCEPT ![r.rid] = @ + 1]
                  /\ file'.data.rentals[tidx[c]] = [r EXCEPT !.notified = TRUE]
        /\ \A k \in 1..Len(file'.data.rentals) :
              LET r == file'.data.rentals[k]
              IN  r.notified => (r.end_time # BadTime /\ r.end_time * Minute <= clock')
      ]_vars

\* C7 happens: a tick has notified and marked one rental while another rental,
\* whose window it was not in, is still un-notified with nothing emitted.
C7_Witness ==
    /\ \A c \in Chats : pc[c] = "idle"
    /\ \E k, m \in 1..Len(file.data.rentals) :
          /\ file.data.rentals[k].notified
          /\ emitted[file.data.rentals[k].rid] = 1
          /\ file.data.rentals[m].end_time # BadTime
          /\ ~file.data.rentals[m].notified
          /\ emitted[file.data.rentals[m].rid] = 0

\* C8: with a chat's job running from before a stored rental's end_time, no
\* end time is skipped between two consecutive ticks: the job never runs one
\* tick before end_time and its next tick after the window has closed with the
\* rental still un-notified and no send for it tried or pending.
C8_NoEndTimeSkipped ==
    [][\A c \in Chats : StartStep(c) =>
          \A k \in 1..Len(file.data.rentals) :
              LET r == file.data.rentals[k]
              IN  ~ /\ r.end_time # BadTime
                    /\ ~r.notified
                    /\ emitted[r.rid] = 0
                    /\ r.rid \in last[c].pending
                    /\ last[c].now >= 0
                    /\ last[c].now < r.end_time * Minute
                    /\ clock >= (r.end_time + 1) * Minute
                    /\ \A d \in Chats :
                          /\ pc[d] = "idle"
                          /\ r.rid \notin (last[d].raised \cup prevfail[d].raised)
      ]_vars

\* C9: when the send for a rental raised in a chat's tick, the chat's next
\* tick, one period later, tries the send for that rental again if the rental
\* is still stored un-notified.
C9_FailedSendRetried ==
    \A c \in Chats :
        (/\ pc[c] = "idle"
         /\ jobs[c] > 0
         /\ prevfail[c].now >= 0
         /\ last[c].now = prevfail[c].now + Interval)
        => \A i \in prevfail[c].raised \cap last[c].pending : i \in last[c].tried

\* C10: a failure on one rental does not end the tick: when a tick ends, every
\* rental it loaded un-notified whose window contains now has had its send
\* tried, and is marked unless its own send raised; no step of a tick touches
\* the chat's registered job.
C10_FailureDoesNotStopTick ==
    [][\A c \in Chats :
        /\ (TickStep(c) /\ pc'[c] = "idle") =>
              \A k \in 1..Len(tdata[c].rentals) :
                  LET r == tdata[c].rentals[k]
                      raised == last[c].raised \cup
                                (IF emitted' = emitted
                                 THEN {tdata[c].rentals[tidx[c]].rid} ELSE {})
                      marked == r.notified \/ (k = tidx[c] /\ emitted' # emitted)
                  IN  (r.rid \in last[c].pending /\ WithinMinute(r, tnow[c]))
                      => /\ r.rid \in last[c].tried
                         /\ r.rid \in raised \/ (marked /\ emitted'[r.rid] >= 1)
        /\ (TickStep(c) \/ StartStep(c)) => (jobs'[c] = jobs[c] /\ chat_job'[c] = chat_job[c])
      ]_vars

\* C10 happens: a finished tick of a registered job met a rental whose
\* end_time does not parse and a send that raised, and still notified and
\* marked another rental.
C10_Witness ==
    \E c \in Chats :
        /\ pc[c] = "idle"
        /\ jobs[c] > 0
        /\ last[c].raised # {}
        /\ \E k, m \in 1..Len(file.data.rentals) :
              /\ file.data.rentals[k].end_time = BadTime
              /\ file.data.rentals[k].rid \in last[c].pending
              /\ file.data.rentals[m].rid \in last[c].tried \ last[c].raised
              /\ file.data.rentals[m].notified
              /\ emitted[file.data.rentals[m].rid] >= 1

\* ---- the ledger requests, as seen from outside
\* The store a file holds, as the program reads it.
StoreOf(f) == IF f.kind = "json" THEN f.data ELSE default_data

\* An add_rental text the interface rejects: wrong field count, an amount that
\* is not a number, a start or end that is not a time, or end not after start.
Rejected(t) ==
    \/ t.nparts # 4
    \/ ~t.numeric
    \/ t.start_time = BadTime
    \/ t.end_time = BadTime
    \/ t.end_time <= t.start_time

\* C11: after a rejected ledger request (an add-rental text that is rejected,
\* an add-category of a name already stored, a delete-category of a name not
\* stored) the persisted store is what it was before the request.
C11_RejectedLeavesStore ==
    /\ (req.op = "add_rental" /\ Rejected(req.arg))
            => StoreOf(file) = StoreOf(req.before)
    /\ (req.op = "add_category" /\ req.arg \in DOMAIN StoreOf(req.before).categories)
            => StoreOf(file) = StoreOf(req.before)
    /\ (req.op = "delete" /\ req.arg \notin DOMAIN StoreOf(req.before).categories)
            => StoreOf(file) = StoreOf(req.before)

\* An add-rental text with end = start was sent for a selected category while
\* a rental was stored and the list had room for another.
C11_Witness ==
    /\ req.op = "add_rental"
    /\ selected[req.chat] # NoSel
    /\ req.arg.nparts = 4 /\ req.arg.numeric
    /\ req.arg.start_time # BadTime /\ req.arg.end_time = req.arg.start_time
    /\ Len(StoreOf(req.before).rentals) > 0
    /\ Len(StoreOf(req.before).rentals) < MaxRentals

\* C12: an undo with an index outside 0..len-1, negative ones included,
\* leaves the store as it was.
C12_OutOfRangeUndoFails ==
    (req.op = "undo"
        /\ (req.arg < 0 \/ req.arg >= Len(StoreOf(req.before).rentals)))
    => StoreOf(file) = StoreOf(req.before)

C14_DeleteRemovesCategoryAndRentals ==
    (req.op = "delete" /\ req.arg \in DOMAIN StoreOf(req.before).categories)
    => LET b == StoreOf(req.before)
           a == StoreOf(file)
       IN  /\ DOMAIN a.categories = DOMAIN b.categories \ {req.arg}
           /\ \A n \in DOMAIN a.categories : a.categories[n] = b.categories[n]
           /\ a.rentals = SelectSeq(b.rentals, LAMBDA r : r.category # req.arg)

\* A category with a stored rental was deleted while a notified rental of
\* another stored category came before it in the list.
C14_Witness ==
    /\ req.op = "delete"
    /\ Cardinality(DOMAIN StoreOf(req.before).categories) = 2
    /\ Len(StoreOf(req.before).rentals) = 2
    /\ StoreOf(req.before).rentals[1].category # req.arg
    /\ StoreOf(req.before).rentals[1].notified
    /\ StoreOf(req.before).rentals[2].category = req.arg
    /\ Len(StoreOf(file).rentals) = 1

\* C19: a ledger request or a menu navigation (a text with no pending action,
\* an add-category, an add-rental, an undo, a delete) leaves every chat's
\* subscription flag as it was.
C19_OnlySubscribeChangesState ==
    req.op \in {"text", "add_category", "add_rental", "undo", "delete"}
    => chat_job = req.sub

\* ---- the store, as seen from outside
\* C15: after a save that fails with an IOError over data saved earlier, the
\* file holds either the whole of the earlier data or the whole of the new
\* data.
C15_SaveIsAtomic ==
    (req.op = "add_category_ioerror" /\ req.before.kind = "json")
    => /\ file.kind = "json"
       /\ \/ file.data = req.before.data
          \/ /\ DOMAIN file.data.categories =
                     DOMAIN req.before.data.categories \cup {req.arg}
             /\ file.data.rentals = req.before.data.rentals

\* C16: whatever the file holds, load does not raise, returns a value with
\* categories and rentals, and leaves the empty store in place of content
\* that is absent, empty, not JSON, not an object, or without the keys.
C16_LoadAlwaysWellFormed ==
    req.op = "menu"
    => /\ ~req.arg.raised
       /\ req.arg.ok
       /\ req.before.kind \notin {"json", "legacy"}
              => (file = Json(default_data) /\ req.arg.data = default_data)

\* C17: loading a file whose categories are a list of names returns and
\* persists a map with exactly those names (zero totals) and the same
\* rentals, and a further load returns the same and leaves the file alone;
\* loading a file in map form leaves the file alone.
C17_LegacyListMigrated ==
    /\ (req.op = "menu" /\ req.before.kind = "legacy")
       => /\ req.arg.ok
          /\ DOMAIN req.arg.data.categories = SeqRange(req.before.names)
          /\ \A n \in DOMAIN req.arg.data.categories :
                 req.arg.data.categories[n] = ZeroTotals
          /\ req.arg.data.rentals = req.before.data.rentals
          /\ file = Json(req.arg.data)
          /\ load_data(file).data = req.arg.data
          /\ load_data(file).file = file
    /\ (req.op = "menu" /\ req.before.kind = "json")
       => /\ file = req.before
          /\ req.arg.data = req.before.data

\* A list of two names with a stored rental was loaded and written back.
C17_Witness ==
    /\ req.op = "menu"
    /\ req.before.kind = "legacy"
    /\ Cardinality(SeqRange(req.before.names)) = 2
    /\ Len(req.before.data.rentals) > 0
    /\ file.kind = "json"

\* ---- subscriptions, as seen from outside
\* C18: an unsubscribe leaves the chat without a registered job and without
\* the 'job' flag, a tick starts only for a chat whose flag is set, and an
\* unsubscribe changes neither the store nor another chat's flag or jobs; for
\* a chat that was not subscribed it changes nothing at all.
C18_UnsubscribeCancelsTick ==
    /\ req.op = "tick" => req.sub[req.chat]
    /\ req.op = "stop"
       => /\ jobs[req.chat] = 0
          /\ ~chat_job[req.chat]
          /\ file = req.before
          /\ \A d \in Chats \ {req.chat} :
                 jobs[d] = req.jobs[d] /\ chat_job[d] = req.sub[d]
    /\ (req.op = "stop" /\ ~req.sub[req.chat])
       => (chat_job = req.sub /\ jobs = req.jobs)

\* A chat unsubscribed while its tick was suspended in a send and the other
\* chat was subscribed.
C18_Witness ==
    /\ req.op = "stop"
    /\ req.sub[req.chat]
    /\ pc[req.chat] = "sending"
    /\ \E d \in Chats \ {req.chat} : req.sub[d] /\ jobs[d] > 0

\* ---- the validator, as seen from outside
\* A text of exactly the shape HH:MM-DD.MM.YY, two decimal digits per field,
\* naming an hour, minute, month and a day of that month in the year 2000+YY.
WellFormedTime(s) ==
    /\ Len(s) = 14
    /\ s[3] = ":" /\ s[6] = "-" /\ s[9] = "." /\ s[12] = "."
    /\ \A k \in {1, 2, 4, 5, 7, 8, 10, 11, 13, 14} : IsDigit(s[k])
    /\ LET hh == FieldAt(s, 1)
           mm == FieldAt(s, 4)
           dd == FieldAt(s, 7)
           mo == FieldAt(s, 10)
           yy == FieldAt(s, 13)
           long == {1, 3, 5, 7, 8, 10, 12}
       IN  /\ 0 <= hh /\ hh <= 23
           /\ 0 <= mm /\ mm <= 59
           /\ 1 <= mo /\ mo <= 12
           /\ 1 <= dd
           /\ dd <= (IF mo \in long THEN 31
                     ELSE IF mo # 2 THEN 30
                     ELSE IF yy % 4 = 0 THEN 29 ELSE 28)

\* C20: validate answers true for exactly the texts of shape HH:MM-DD.MM.YY
\* whose fields name a time of day and a day of the calendar, and false for
\* every other text.
C20_ValidateExactlyShape ==
    req.op = "validate" => (req.reply <=> WellFormedTime(req.arg))

\* ---- the undo menu, as seen from outside
\* C21: in the undo menu of a category every button carries the index of a
\* stored rental of that category, and the button labelled k carries the
\* index of the rental listed as item k.
C21_UndoButtonsMatchMenu ==
    req.op = "undo_menu"
    => LET rs == StoreOf(req.before).rentals
           m == req.arg.menu
       IN  \A k \in 1..Len(m.buttons) :
              /\ m.buttons[k] \in 0..(Len(rs) - 1)
              /\ rs[m.buttons[k] + 1].category = req.arg.category
              /\ rs[m.buttons[k] + 1] = m.items[k]

\* ---- add then undo
\* C22: when an add-rental that appended a rental is followed at once by the
\* undo of the last position, the store is what it was before the add: the
\* same rentals and the same totals of every category.
C22_AddThenUndoRestores ==
    (/\ req.op = "undo"
     /\ req.was.add
     /\ Len(StoreOf(req.before).rentals) = Len(StoreOf(req.was.file).rentals) + 1
     /\ req.arg = Len(StoreOf(req.before).rentals) - 1)
    => StoreOf(file) = StoreOf(req.was.file)

\* ---- job registrations
\* C23: whatever start and stop_notifications requests the chats have made,
\* each chat has at most one repeating job registered, and its 'job' flag is
\* set exactly when a job is registered under its name.
C23_OneJobIffFlag ==
    \A c \in Chats :
        /\ jobs[c] <= 1
        /\ chat_job[c] <=> jobs[c] > 0

\* A chat sent /start while it was already subscribed, after time had passed,
\* and the other chat had no job.
C23_Witness ==
    /\ req.op = "start"
    /\ req.sub[req.chat]
    /\ req.jobs[req.chat] = 1
    /\ jobs[req.chat] = 1
    /\ clock > 0
    /\ \E d \in Chats \ {req.chat} : jobs[d] = 0 /\ ~chat_job[d]

====
